---- MODULE Spec2Model ----
(***************************************************************************)
(* DeleteImages.py: main() parses the arguments, asks for confirmation     *)
(* unless --dry-run is given, and calls delete_small_images(), which       *)
(* validates the folder, lists its image files, reads each one's           *)
(* dimensions, deletes (or reports) the undersized ones and prints a       *)
(* summary.  File names and the operator's answer are sequences of         *)
(* one-character strings, so that suffix(), lower() and strip() are        *)
(* computed the way the code computes them.                                *)
(***************************************************************************)
EXTENDS Integers, Sequences, FiniteSets, TLC

\* ------------------------------------------------------------- bounds
MaxFiles == 3   \* direct entries of the target folder
MaxDim   == 2   \* widths, heights and thresholds range over 1..MaxDim

\* ------------------------------------------------------------ strings
UpperChars == <<"A","B","C","D","E","F","G","H","I","J","K","L","M",
                "N","O","P","Q","R","S","T","U","V","W","X","Y","Z">>
LowerChars == <<"a","b","c","d","e","f","g","h","i","j","k","l","m",
                "n","o","p","q","r","s","t","u","v","w","x","y","z">>
Whitespace == {" ", "\t", "\n"}

\* the lower-case letter of each upper-case letter
LowerOf ==
    [c \in {UpperChars[k] : k \in 1..Len(UpperChars)} |->
        LowerChars[CHOOSE k \in 1..Len(UpperChars) : UpperChars[k] = c]]

\* str.lower() on one character
LowerChar(c) == IF c \in DOMAIN LowerOf THEN LowerOf[c] ELSE c

\* str.lower()
lower(s) == [k \in 1..Len(s) |-> LowerChar(s[k])]

\* str.strip(): drops leading and trailing whitespace
strip(s) ==
    LET keep  == {k \in 1..Len(s) : s[k] \notin Whitespace}
        first == CHOOSE k \in keep : \A j \in keep : k <= j
        last  == CHOOSE k \in keep : \A j \in keep : j <= k
    IN  IF keep = {} THEN <<>> ELSE SubSeq(s, first, last)

\* str.rfind("."): 1-based index of the last dot, 0 when there is none
rfindDot(s) ==
    LET dots == {k \in 1..Len(s) : s[k] = "."}
    IN  IF dots = {} THEN 0 ELSE CHOOSE k \in dots : \A j \in dots : j <= k

\* PurePath.suffix: the part of the name from its last dot, empty when the
\* name has no dot, starts with its only dot or ends with a dot
suffix(name) ==
    LET d == rfindDot(name)
    IN  IF 1 < d /\ d < Len(name) THEN SubSeq(name, d, Len(name)) ELSE <<>>

image_extensions ==
    { <<".","j","p","g">>, <<".","j","p","e","g">>, <<".","p","n","g">>,
      <<".","b","m","p">>, <<".","g","i","f">>, <<".","t","i","f","f">>,
      <<".","t","i","f">>, <<".","w","e","b","p">> }

is_image_file(name) == lower(suffix(name)) \in image_extensions

\* ------------------------------------------------------- file system
\* An entry of the disk: the directory holding it (a path: a sequence of
\* names), its name, its kind, and what Image.open(...).size yields for it:
\* <<width, height>>, or <<>> when the content cannot be read as an image.
Str_pics  == <<"p","i","c","s">>
Str_none  == <<"n","o","n","e">>
Str_x_png == <<"x",".","p","n","g">>
Str_a_jpg == <<"a",".","j","p","g">>
Str_b_PNG == <<"b",".","P","N","G">>
Str_c_txt == <<"c",".","t","x","t">>
Str_gif   == <<".","g","i","f">>
Str_d_png == <<"d",".","p","n","g">>
Str_s_jpg == <<"s",".","j","p","g">>

Unreadable == <<>>
Dims  == (1..MaxDim) \X (1..MaxDim)
Sizes == Dims \cup {Unreadable}

ImageNames == {Str_a_jpg, Str_b_PNG}          \* contents vary
OtherNames == {Str_c_txt, Str_gif}            \* always a 1x1 image inside
ChildNames == ImageNames \cup OtherNames \cup {Str_d_png}
FolderArgs == {Str_pics, Str_none, Str_x_png}

File(d, n, sz) == [dir |-> d, name |-> n, kind |-> "file", size |-> sz]
Dir(d, n)      == [dir |-> d, name |-> n, kind |-> "dir", size |-> Unreadable]

\* what is on the disk whatever the folder holds: the folder itself, a
\* regular file beside it
RootEntries == {Dir(<<>>, Str_pics), File(<<>>, Str_x_png, <<1, 1>>)}

\* the folder's content: names N, sizes sz of the image-named files; d.png
\* is a subdirectory holding a small image of its own
Children(N, sz) ==
    {File(<<Str_pics>>, n, sz[n]) : n \in N \cap ImageNames}
    \cup {File(<<Str_pics>>, n, <<1, 1>>) : n \in N \cap OtherNames}
    \cup (IF Str_d_png \in N
          THEN {Dir(<<Str_pics>>, Str_d_png),
                File(<<Str_pics, Str_d_png>>, Str_s_jpg, <<1, 1>>)}
          ELSE {})

PathOf(e) == Append(e.dir, e.name)

\* Path.exists(), Path.is_dir(), Path.is_file()
exists(fs, path)  == \E e \in fs : PathOf(e) = path
is_dir(fs, path)  == \E e \in fs : PathOf(e) = path /\ e.kind = "dir"
is_file(fs, path) == \E e \in fs : PathOf(e) = path /\ e.kind = "file"

\* Path.iterdir(): the names of the direct entries of a directory
iterdir(fs, path) == {e.name : e \in {x \in fs : x.dir = path}}

EntryAt(fs, path) == CHOOSE e \in fs : PathOf(e) = path

\* get_image_dimensions(): the size, or Unreadable (None) when opening fails
get_image_dimensions(fs, path) ==
    IF is_file(fs, path) THEN EntryAt(fs, path).size ELSE Unreadable

\* an unlink() that removes nothing
unlink_Keeps(fs, path) == fs

\* Path.unlink() when it succeeds
unlink(fs, path) == {e \in fs : PathOf(e) # path}

\* every order in which iterdir() may yield the set S
Orders(S) ==
    {q \in [1..Cardinality(S) -> S] : \A a, b \in 1..Cardinality(S) : q[a] = q[b] => a = b}

\* the operator's possible answers to the prompt
Responses ==
    { <<"y">>, <<"Y","E","S">>, <<" ","y","e","s"," ">>,
      <<>>, <<"n","o">>, <<"y","e">> }

\* nothing is read from the terminal under --dry-run
Typed(dry_run) == IF dry_run THEN {<<>>} ELSE Responses

Yes == <<"y","e","s">>
Y   == <<"y">>

\* a check of the first letter only
AcceptedPrefix(r) == Len(lower(r)) > 0 /\ lower(r)[1] = "y"

\* response = input(...).lower().strip(); response in ['yes', 'y']
Accepted(r) == strip(lower(r)) \in {Yes, Y}

\* <= where the code has <
UndersizedOrEqual(width, height, min_width, min_height) ==
    width <= min_width \/ height <= min_height

\* width < min_width or height < min_height
Undersized(width, height, min_width, min_height) ==
    width < min_width \/ height < min_height

\* -------------------------------------------------------------- state
VARIABLES
    disk,           \* the file system: a set of entries
    args,           \* the parsed command line: folder, width, height, dry_run
    pc,             \* where the program is: "main", "call", "list", "loop", "exit"
    stdin,          \* the line the operator will type at the prompt
    image_files,    \* the names of the candidates, in iteration order
    idx,            \* the position of the for loop in image_files
    deleted_count,
    kept_count,
    error_count,
    output,         \* the notices printed by this invocation, in order
    summary,        \* <<>>, or the one summary printed
    opened,         \* the paths handed to Image.open by this invocation
    unlinked,       \* the paths unlink() was called on by this invocation
    disk0,          \* the file system when this invocation started
    past            \* <<>>, or what the invocation before this one did

vars == <<disk, args, pc, stdin, image_files, idx, deleted_count,
          kept_count, error_count, output, summary, opened, unlinked,
          disk0, past>>

Notice(k, n, w, h) == [kind |-> k, name |-> n, w |-> w, h |-> h]

folder == <<args.folder>>
FilePath(n) == Append(folder, n)

\* the values of --width and --height: the two largest dimensions, so that
\* images below, at and above the minimum all occur
Minimums == (MaxDim - 1)..MaxDim

\* the contents pics may have when the command line names f: any MaxFiles
\* entries when it names pics itself, at most one entry otherwise (the
\* program then never looks into pics)
Contents(f) ==
    {N \in SUBSET ChildNames :
        Cardinality(N) <= (IF f = Str_pics THEN MaxFiles ELSE 1)}

Init ==
    /\ \E f \in FolderArgs, w \in Minimums, h \in Minimums, d \in BOOLEAN :
         args = [folder |-> f, width |-> w, height |-> h, dry_run |-> d]
    /\ \E N \in Contents(args.folder) :
         \E sz \in [N \cap ImageNames -> Sizes] :
              disk = RootEntries \cup Children(N, sz)
    /\ stdin \in Typed(args.dry_run)
    /\ pc = "main"
    /\ image_files = <<>>
    /\ idx = 0
    /\ deleted_count = 0
    /\ kept_count = 0
    /\ error_count = 0
    /\ output = <<>>
    /\ summary = <<>>
    /\ opened = {}
    /\ unlinked = {}
    /\ disk0 = disk
    /\ past = <<>>

Say(n) == output' = Append(output, n)

\* main(), lines 137-143: without --dry-run, warn, read the answer and go
\* on only when it is accepted
MainConfirm ==
    /\ pc = "main"
    /\ ~args.dry_run
    /\ stdin' = <<>>
    /\ LET r == stdin IN
         /\ IF Accepted(r)
            THEN /\ output' = output \o <<Notice("PROMPT", args.folder, args.width, args.height)>>
                 /\ pc' = "call"
            ELSE /\ output' = output \o <<Notice("PROMPT", args.folder, args.width, args.height),
                                           Notice("CANCELLED", <<>>, 0, 0)>>
                 /\ pc' = "exit"
    /\ UNCHANGED <<disk, args, image_files, idx, deleted_count, kept_count,
                   error_count, summary, opened, unlinked, disk0, past>>

\* main(), line 137: with --dry-run there is no prompt
MainDryRun ==
    /\ pc = "main"
    /\ args.dry_run
    /\ pc' = "call"
    /\ UNCHANGED <<disk, args, stdin, image_files, idx, deleted_count,
                   kept_count, error_count, output, summary, opened, unlinked,
                   disk0, past>>

\* the error is printed but the function does not return
InvalidFolder_NoReturn ==
    /\ pc = "call"
    /\ ~(exists(disk, folder) /\ is_dir(disk, folder))
    /\ IF ~exists(disk, folder)
       THEN Say(Notice("ERROR_NOT_EXIST", args.folder, 0, 0))
       ELSE Say(Notice("ERROR_NOT_DIR", args.folder, 0, 0))
    /\ pc' = "list"
    /\ UNCHANGED <<disk, args, stdin, image_files, idx, deleted_count,
                   kept_count, error_count, summary, opened, unlinked, disk0,
                   past>>

\* delete_small_images(), lines 42-50: the folder is missing or no directory
InvalidFolder ==
    /\ pc = "call"
    /\ ~(exists(disk, folder) /\ is_dir(disk, folder))
    /\ IF ~exists(disk, folder)
       THEN Say(Notice("ERROR_NOT_EXIST", args.folder, 0, 0))
       ELSE Say(Notice("ERROR_NOT_DIR", args.folder, 0, 0))
    /\ pc' = "exit"
    /\ UNCHANGED <<disk, args, stdin, image_files, idx, deleted_count,
                   kept_count, error_count, summary, opened, unlinked, disk0, past>>

\* delete_small_images(), lines 52-60: the counters and the heading
StartScan ==
    /\ pc = "call"
    /\ exists(disk, folder) /\ is_dir(disk, folder)
    /\ deleted_count' = 0
    /\ kept_count' = 0
    /\ error_count' = 0
    /\ output' = output
          \o <<Notice("SCANNING", args.folder, args.width, args.height)>>
          \o (IF args.dry_run THEN <<Notice("DRY_RUN_MODE", <<>>, 0, 0)>> ELSE <<>>)
    /\ pc' = "list"
    /\ UNCHANGED <<disk, args, stdin, image_files, idx, summary, opened,
                   unlinked, disk0, past>>

\* the listing without the is_file() test
all_files_NoFileCheck == iterdir(disk, folder)

\* line 63: all_files = [f for f in folder.iterdir() if f.is_file()]
all_files == {n \in iterdir(disk, folder) : is_file(disk, FilePath(n))}

\* the listing without the extension filter
Candidates_Unfiltered == all_files

\* line 64: image_files = [f for f in all_files if is_image_file(f)]
Candidates == {n \in all_files : is_image_file(n)}

\* delete_small_images(), lines 63-71: list the folder, keep the image files
Enumerate ==
    /\ pc = "list"
    /\ \E q \in Orders(Candidates) :
         /\ image_files' = q
         /\ IF Len(q) = 0
            THEN /\ Say(Notice("NO_IMAGES", <<>>, 0, 0))
                 /\ pc' = "exit"
                 /\ idx' = idx
            ELSE /\ Say(Notice("FOUND", <<>>, Len(q), 0))
                 /\ pc' = "loop"
                 /\ idx' = 1
    /\ UNCHANGED <<disk, args, stdin, deleted_count, kept_count,
                   error_count, summary, opened, unlinked, disk0, past>>

\* the file the for loop is at, and its dimensions
InLoop     == pc = "loop" /\ idx <= Len(image_files)
file_path  == FilePath(image_files[idx])
dimensions == get_image_dimensions(disk, file_path)
width      == dimensions[1]
height     == dimensions[2]
IsUndersized == Undersized(width, height, args.width, args.height)

\* the reader's exception is not caught: the call ends there
ReadFail_Uncaught ==
    /\ InLoop
    /\ dimensions = Unreadable
    /\ opened' = opened \cup {file_path}
    /\ pc' = "exit"
    /\ UNCHANGED <<disk, args, stdin, image_files, idx, deleted_count,
                   kept_count, error_count, output, summary, unlinked, disk0,
                   past>>

\* lines 74-78: the image cannot be read
ReadFail ==
    /\ InLoop
    /\ dimensions = Unreadable
    /\ opened' = opened \cup {file_path}
    /\ Say(Notice("WARNING", image_files[idx], 0, 0))
    /\ error_count' = error_count + 1
    /\ idx' = idx + 1
    /\ UNCHANGED <<disk, args, pc, stdin, image_files, deleted_count,
                   kept_count, summary, unlinked, disk0, past>>

\* the dry_run test is missing: the file is removed all the same
WouldDelete_Unlinks ==
    /\ InLoop
    /\ dimensions # Unreadable
    /\ IsUndersized
    /\ args.dry_run
    /\ opened' = opened \cup {file_path}
    /\ disk' = unlink(disk, file_path)
    /\ Say(Notice("WOULD_DELETE", image_files[idx], width, height))
    /\ idx' = idx + 1
    /\ UNCHANGED <<args, pc, stdin, image_files, deleted_count, kept_count,
                   error_count, summary, unlinked, disk0, past>>

\* lines 82-84: undersized, dry run
WouldDelete ==
    /\ InLoop
    /\ dimensions # Unreadable
    /\ IsUndersized
    /\ args.dry_run
    /\ opened' = opened \cup {file_path}
    /\ Say(Notice("WOULD_DELETE", image_files[idx], width, height))
    /\ idx' = idx + 1
    /\ UNCHANGED <<disk, args, pc, stdin, image_files, deleted_count,
                   kept_count, error_count, summary, unlinked, disk0, past>>

\* lines 85-89: undersized, unlink() succeeds
DeleteOk ==
    /\ InLoop
    /\ dimensions # Unreadable
    /\ IsUndersized
    /\ ~args.dry_run
    /\ opened' = opened \cup {file_path}
    /\ unlinked' = unlinked \cup {file_path}
    /\ disk' = unlink(disk, file_path)
    /\ Say(Notice("DELETED", image_files[idx], width, height))
    /\ deleted_count' = deleted_count + 1
    /\ idx' = idx + 1
    /\ UNCHANGED <<args, pc, stdin, image_files, kept_count, error_count,
                   summary, disk0, past>>

\* the failed deletion is reported but not counted
DeleteFail_Uncounted ==
    /\ InLoop
    /\ dimensions # Unreadable
    /\ IsUndersized
    /\ ~args.dry_run
    /\ opened' = opened \cup {file_path}
    /\ unlinked' = unlinked \cup {file_path}
    /\ Say(Notice("ERROR_DELETING", image_files[idx], 0, 0))
    /\ idx' = idx + 1
    /\ UNCHANGED <<disk, args, pc, stdin, image_files, deleted_count,
                   kept_count, error_count, summary, disk0, past>>

\* unlink()'s exception is not caught: the call ends there
DeleteFail_Aborts ==
    /\ InLoop
    /\ dimensions # Unreadable
    /\ IsUndersized
    /\ ~args.dry_run
    /\ opened' = opened \cup {file_path}
    /\ unlinked' = unlinked \cup {file_path}
    /\ pc' = "exit"
    /\ UNCHANGED <<disk, args, stdin, image_files, idx, deleted_count,
                   kept_count, error_count, output, summary, disk0, past>>

\* lines 85-92: undersized, unlink() raises (the file stays)
DeleteFail ==
    /\ InLoop
    /\ dimensions # Unreadable
    /\ IsUndersized
    /\ ~args.dry_run
    /\ opened' = opened \cup {file_path}
    /\ unlinked' = unlinked \cup {file_path}
    /\ Say(Notice("ERROR_DELETING", image_files[idx], 0, 0))
    /\ error_count' = error_count + 1
    /\ idx' = idx + 1
    /\ UNCHANGED <<disk, args, pc, stdin, image_files, deleted_count,
                   kept_count, summary, disk0, past>>

\* lines 93-95: large enough
Keep ==
    /\ InLoop
    /\ dimensions # Unreadable
    /\ ~IsUndersized
    /\ opened' = opened \cup {file_path}
    /\ Say(Notice("KEPT", image_files[idx], width, height))
    /\ kept_count' = kept_count + 1
    /\ idx' = idx + 1
    /\ UNCHANGED <<disk, args, pc, stdin, image_files, deleted_count,
                   error_count, summary, unlinked, disk0, past>>

\* lines 97-106: the summary, after the last candidate
Summary ==
    /\ pc = "loop"
    /\ idx > Len(image_files)
    /\ summary' = <<[would_delete |-> args.dry_run,
                     deleted |-> IF args.dry_run
                                 THEN Len(image_files) - kept_count - error_count
                                 ELSE deleted_count,
                     kept |-> kept_count,
                     errors_shown |-> error_count > 0,
                     errors |-> error_count]>>
    /\ pc' = "exit"
    /\ UNCHANGED <<disk, args, stdin, image_files, idx, deleted_count,
                   kept_count, error_count, output, opened, unlinked, disk0, past>>

\* the operator starts the program again with the same command line: a new
\* process, whose locals start afresh
Again ==
    /\ pc = "exit"
    /\ past = <<>>
    /\ past' = Append(past, [output |-> output, summary |-> summary,
                             image_files |-> image_files, before |-> disk0,
                             after |-> disk])
    /\ stdin' \in Typed(args.dry_run)
    /\ pc' = "main"
    /\ image_files' = <<>>
    /\ idx' = 0
    /\ deleted_count' = 0
    /\ kept_count' = 0
    /\ error_count' = 0
    /\ output' = <<>>
    /\ summary' = <<>>
    /\ opened' = {}
    /\ unlinked' = {}
    /\ disk0' = disk
    /\ UNCHANGED <<disk, args>>

Next ==
    \/ MainConfirm
    \/ MainDryRun
    \/ InvalidFolder
    \/ StartScan
    \/ Enumerate
    \/ ReadFail
    \/ WouldDelete
    \/ DeleteOk
    \/ DeleteFail
    \/ Keep
    \/ Summary
    \/ Again

Spec == Init /\ [][Next]_vars

\* ------------------------------------------------------------- claims
\* the files of a directory whose name carries a recognized extension
Recognized(fs, d) ==
    {e \in fs : e.dir = d /\ e.kind = "file"
                /\ lower(suffix(e.name)) \in image_extensions}

OutcomeKinds   == {"KEPT", "DELETED", "WOULD_DELETE", "WARNING", "ERROR_DELETING"}
UndersizedKinds == {"DELETED", "WOULD_DELETE", "ERROR_DELETING"}

\* the positions of the notices of some kinds in a sequence of notices
At(out, kinds) == {k \in 1..Len(out) : out[k].kind \in kinds}
\* those about the file named n
AtName(out, kinds, n) == {k \in At(out, kinds) : out[k].name = n}
Said(out, kinds) == At(out, kinds) # {}

\* the candidates the loop has dealt with
Processed == IF pc \in {"loop", "exit"} THEN 1..(idx - 1) ELSE {}
\* the entry of a candidate as it was when the invocation started
Before(n) == EntryAt(disk0, FilePath(n))

\* C1: once the summary is printed, every recognized-extension file present
\* at enumeration time has exactly one outcome notice, the summary's kept,
\* deleted (would-delete under dry run) and errored figures count those
\* notices, and they add up to the number of such files.
C1_CountersPartition ==
    summary # <<>> =>
      LET s == summary[1]
          R == Recognized(disk0, folder)
      IN  /\ s.kept + s.deleted + s.errors = Cardinality(R)
          /\ \A e \in R : Cardinality(AtName(output, OutcomeKinds, e.name)) = 1
          /\ \A k \in At(output, OutcomeKinds) : \E e \in R : e.name = output[k].name
          /\ s.kept = Cardinality(At(output, {"KEPT"}))
          /\ s.deleted = Cardinality(At(output,
                            IF args.dry_run THEN {"WOULD_DELETE"} ELSE {"DELETED"}))
          /\ s.errors = Cardinality(At(output, {"WARNING", "ERROR_DELETING"}))

C1_Witness ==
    /\ summary # <<>>
    /\ args.dry_run
    /\ summary[1].deleted = 1
    /\ summary[1].errors = 1
    /\ Said(output, {"WOULD_DELETE"})

\* C2: under dry run the file system never changes, unlink() is never
\* called, nothing is reported DELETED, and every undersized candidate dealt
\* with is reported WOULD DELETE with its dimensions.
C2_DryRunRemovesNothing ==
    args.dry_run =>
      /\ disk = disk0
      /\ unlinked = {}
      /\ ~Said(output, {"DELETED", "ERROR_DELETING"})
      /\ \A k \in Processed :
           LET sz == Before(image_files[k]).size IN
           (sz # Unreadable /\ (sz[1] < args.width \/ sz[2] < args.height))
             => \E j \in At(output, {"WOULD_DELETE"}) :
                  output[j] = Notice("WOULD_DELETE", image_files[k], sz[1], sz[2])

C2_Witness ==
    /\ args.dry_run
    /\ pc = "exit"
    /\ Said(output, {"WOULD_DELETE"})
    /\ Said(output, {"KEPT"})

\* C3: every entry the program has removed is a file of the target folder
\* with a recognized extension, whose dimensions were read and are below
\* the threshold in width or in height, and the run is not a dry run; no
\* entry is ever added.
C3_OnlyUndersizedCandidatesDeleted ==
    /\ disk \subseteq disk0
    /\ \A e \in disk0 \ disk :
         /\ ~args.dry_run
         /\ e \in Recognized(disk0, folder)
         /\ PathOf(e) \in opened
         /\ e.size # Unreadable
         /\ (e.size[1] < args.width \/ e.size[2] < args.height)

C3_Witness ==
    /\ pc = "exit"
    /\ disk # disk0
    /\ File(folder, Str_c_txt, <<1, 1>>) \in disk
    /\ File(<<Str_pics, Str_d_png>>, Str_s_jpg, <<1, 1>>) \in disk

\* C4: a candidate whose dimensions were read is kept exactly when its width
\* is at least min_width and its height at least min_height; a kept file
\* stays on disk and kept_count counts the kept files; any other readable
\* candidate is treated as undersized.
C4_StrictComparison ==
    /\ \A k \in Processed :
         LET n  == image_files[k]
             sz == Before(n).size
         IN  sz # Unreadable =>
               /\ (AtName(output, {"KEPT"}, n) # {})
                     <=> (sz[1] >= args.width /\ sz[2] >= args.height)
               /\ (AtName(output, {"KEPT"}, n) # {}) => Before(n) \in disk
               /\ (AtName(output, {"KEPT"}, n) = {})
                     => AtName(output, UndersizedKinds, n) # {}
    /\ kept_count = Cardinality({k \in Processed :
           LET sz == Before(image_files[k]).size
           IN  sz # Unreadable /\ sz[1] >= args.width /\ sz[2] >= args.height})

C4_Witness ==
    /\ pc = "exit"
    /\ args.width > 1
    /\ args.height > 1
    /\ \E k \in At(output, {"KEPT"}) :
         output[k].w = args.width /\ output[k].h = args.height
    /\ \E k \in At(output, {"DELETED"}) :
         output[k].w >= args.width /\ output[k].h < args.height

\* C5: an entry that is not a regular file of the target folder with a
\* recognized extension is never a candidate: it is not in image_files, is
\* never opened, never unlinked, stays on disk, has no notice about it, and
\* the number of files found counts the recognized files only.
C5_OthersNeverCandidates ==
    /\ \A e \in disk0 \ Recognized(disk0, folder) :
         /\ PathOf(e) \notin opened
         /\ PathOf(e) \notin unlinked
         /\ e \in disk
         /\ e.dir = folder =>
              /\ \A k \in 1..Len(image_files) : image_files[k] # e.name
              /\ AtName(output, OutcomeKinds, e.name) = {}
    /\ \A k \in At(output, {"FOUND"}) :
         output[k].w = Cardinality(Recognized(disk0, folder))
    /\ Len(image_files) <= Cardinality(Recognized(disk0, folder))

C5_Witness ==
    /\ summary # <<>>
    /\ File(folder, Str_c_txt, <<1, 1>>) \in disk
    /\ Dir(folder, Str_d_png) \in disk
    /\ Said(output, {"DELETED"})
    /\ \E k \in At(output, {"FOUND"}) : output[k].w = 1

\* the prompt of main() has just been answered
Answered == pc = "main" /\ ~args.dry_run /\ pc' # "main"
\* nothing but the prompt and the cancellation has happened
NothingDone ==
    /\ disk = disk0
    /\ opened = {}
    /\ unlinked = {}
    /\ image_files = <<>>
    /\ summary = <<>>
    /\ deleted_count = 0 /\ kept_count = 0 /\ error_count = 0
    /\ ~Said(output, OutcomeKinds \cup {"SCANNING", "FOUND", "NO_IMAGES",
                                        "ERROR_NOT_EXIST", "ERROR_NOT_DIR"})

\* C6 as stated: without --dry-run the scan is entered only when the answer,
\* lower-cased, is "yes" or "y"; every other answer cancels.
C6_Original ==
    [][Answered => (pc' = "call" <=> lower(stdin) \in {Yes, Y})]_vars

\* C6, amended: without --dry-run the prompt comes before any processing and
\* the scan is entered exactly when the answer, lower-cased and stripped of
\* leading and trailing whitespace, is "yes" or "y"; any other answer
\* cancels with nothing opened, deleted or counted; under --dry-run there
\* is no prompt.
C6_ConfirmationGate ==
    /\ [][Answered =>
            /\ pc' = "call" <=> strip(lower(stdin)) \in {Yes, Y}
            /\ pc' # "call" => pc' = "exit" /\ Said(output', {"CANCELLED"})
            /\ output = <<>> /\ output'[1].kind = "PROMPT"
            /\ NothingDone /\ NothingDone']_vars
    /\ [](Said(output, {"CANCELLED"}) => pc = "exit" /\ NothingDone)
    /\ [](args.dry_run => ~Said(output, {"PROMPT", "CANCELLED"}))
    /\ [](~args.dry_run /\ pc # "main" => output[1].kind = "PROMPT")

C6_Witness ==
    /\ past # <<>>
    /\ Said(past[1].output, {"CANCELLED"})
    /\ past[1].before = past[1].after
    /\ \E e \in disk : e.dir = folder /\ e.name = Str_a_jpg /\ e.size = <<1, 1>>
    /\ Said(output, {"DELETED"})

\* C7: when the folder is missing or is no directory, the call reports which
\* of the two it is and returns: nothing is listed, opened, deleted or
\* counted, there is no notice about any file and no summary.
C7_InvalidFolderStops ==
    ~(exists(disk0, folder) /\ is_dir(disk0, folder)) =>
      /\ pc \in {"main", "call", "exit"}
      /\ disk = disk0
      /\ opened = {}
      /\ unlinked = {}
      /\ image_files = <<>>
      /\ summary = <<>>
      /\ deleted_count = 0 /\ kept_count = 0 /\ error_count = 0
      /\ ~Said(output, OutcomeKinds \cup {"SCANNING", "FOUND", "NO_IMAGES"})
      /\ (pc = "exit" /\ ~Said(output, {"CANCELLED"})) =>
           /\ output[Len(output)] =
                Notice(IF exists(disk0, folder) THEN "ERROR_NOT_DIR"
                       ELSE "ERROR_NOT_EXIST", args.folder, 0, 0)
           /\ Cardinality(At(output, {"ERROR_NOT_DIR", "ERROR_NOT_EXIST"})) = 1

C7_Witness ==
    /\ pc = "exit"
    /\ args.folder = Str_x_png
    /\ ~args.dry_run
    /\ Said(output, {"ERROR_NOT_DIR"})
    /\ \E e \in disk : e.name = Str_a_jpg /\ e.size = <<1, 1>>

\* the scan goes through: while candidates remain a step of the loop is
\* possible, and the call ends only after the last candidate, with a summary
RunCompletes ==
    /\ pc = "loop" =>
         IF idx <= Len(image_files)
         THEN ENABLED ReadFail \/ ENABLED Keep \/ ENABLED WouldDelete \/ ENABLED DeleteOk
         ELSE ENABLED Summary
    /\ (pc = "exit" /\ Said(output, {"FOUND"})) =>
         /\ idx = Len(image_files) + 1
         /\ summary # <<>>
         /\ \A k \in 1..Len(image_files) :
              AtName(output, OutcomeKinds, image_files[k]) # {}

\* C8: a candidate the reader fails on gets one warning naming it and no
\* other notice, counts once in errored, is never unlinked and stays on
\* disk; the run goes on to the remaining candidates and to the summary.
C8_ReaderFailureIsCounted ==
    /\ \A k \in Processed :
         LET n == image_files[k] IN
         Before(n).size = Unreadable =>
           /\ Cardinality(AtName(output, {"WARNING"}, n)) = 1
           /\ AtName(output, OutcomeKinds \ {"WARNING"}, n) = {}
           /\ FilePath(n) \notin unlinked
           /\ Before(n) \in disk
    /\ error_count =
         Cardinality({k \in Processed : Before(image_files[k]).size = Unreadable})
         + Cardinality(At(output, {"ERROR_DELETING"}))
    /\ Cardinality(At(output, {"WARNING"})) =
         Cardinality({k \in Processed : Before(image_files[k]).size = Unreadable})
    /\ RunCompletes

C8_Witness ==
    /\ summary # <<>>
    /\ Len(image_files) = 2
    /\ Before(image_files[1]).size = Unreadable
    /\ output[Len(output)].kind = "DELETED"
    /\ summary[1].errors = 1

\* C9: in a run that is no dry run, a candidate whose deletion fails gets
\* one error notice, counts once in errored and not in deleted, and stays on
\* disk; deleted counts the files actually removed; the run goes on to the
\* remaining candidates and to the summary.
C9_DeletionFailureIsCounted ==
    /\ \A k \in At(output, {"ERROR_DELETING"}) :
         LET n == output[k].name IN
         /\ ~args.dry_run
         /\ Cardinality(AtName(output, OutcomeKinds, n)) = 1
         /\ FilePath(n) \in unlinked
         /\ Before(n) \in disk
    /\ deleted_count = Cardinality(At(output, {"DELETED"}))
    /\ deleted_count = Cardinality(disk0 \ disk)
    /\ error_count = Cardinality(At(output, {"ERROR_DELETING", "WARNING"}))
    /\ (pc = "exit" /\ Said(output, {"ERROR_DELETING"})) => summary # <<>>
    /\ (pc = "loop" /\ Said(output, {"ERROR_DELETING"})) =>
         IF idx <= Len(image_files)
         THEN ENABLED ReadFail \/ ENABLED Keep \/ ENABLED DeleteOk
         ELSE ENABLED Summary
    /\ (pc = "exit" /\ Said(output, {"FOUND"})) => idx = Len(image_files) + 1

C9_Witness ==
    /\ summary # <<>>
    /\ Len(image_files) = 2
    /\ output[Len(output) - 1].kind = "ERROR_DELETING"
    /\ output[Len(output)].kind = "DELETED"
    /\ summary[1].errors = 1
    /\ summary[1].deleted = 1

\* the invocation before this one scanned the folder, and neither is a dry run
SecondRealRun == past # <<>> /\ past[1].summary # <<>> /\ ~args.dry_run

\* C10 as stated: the second of two successive runs without dry run finds
\* no undersized candidate and deletes nothing.
C10_Original ==
    SecondRealRun =>
      /\ ~Said(output, UndersizedKinds)
      /\ disk = disk0

\* C10, amended: the second of two successive runs without dry run finds
\* undersized only the files whose deletion failed in the first run; when
\* no deletion failed in the first run, the second finds no undersized
\* candidate and deletes nothing.
C10_SecondRunFixedPoint ==
    SecondRealRun =>
      /\ \A k \in At(output, UndersizedKinds) :
           AtName(past[1].output, {"ERROR_DELETING"}, output[k].name) # {}
      /\ ~Said(past[1].output, {"ERROR_DELETING"}) =>
           /\ ~Said(output, UndersizedKinds)
           /\ disk = disk0
           /\ deleted_count = 0

C10_Witness ==
    /\ SecondRealRun
    /\ past[1].summary[1].deleted = 1
    /\ past[1].summary[1].errors = 0
    /\ past[1].summary[1].kept = 1
    /\ summary # <<>>
    /\ summary[1].kept = 1
    /\ summary[1].deleted = 0

====
